---- MODULE Spec2Model ----
(***************************************************************************)
(* Model of the logparser input plugin (plugins/inputs/logparser) and its  *)
(* grok line parser (plugins/inputs/logparser/grok).                       *)
(*                                                                         *)
(* Two specifications share the variables:                                 *)
(*   SpecParse  one grok.Parser: Compile, then ParseLine calls whose range *)
(*              loop over the captures runs one iteration per step, in any *)
(*              order (Go map iteration order);                            *)
(*   Spec       the plugin: Start, Stop, the receiver goroutines, the tail *)
(*              library's line streams and the accumulator.                *)
(***************************************************************************)
EXTENDS Integers, Sequences, FiniteSets, TLC

VARIABLES
    parser,     \* the grok.Parser struct (GrokParser field of the plugin)
    call,       \* SpecParse: the ParseLine call in progress
    seen,       \* SpecParse: <<tags, fields>> of the calls that returned
    firsts,     \* SpecParse: first capture iterated by each returned call
    grokNil,    \* plugin config: GrokParser is a nil pointer
    globs,      \* plugin config: what each entry of l.Files resolves to
    mu,         \* l.Mutex: "free", or the method that holds it
    l_parsers,  \* l.parsers
    l_acc,      \* l.acc has been assigned
    tailers,    \* l.tailers: session ids
    wg,         \* l.wg counter
    sess,       \* every tail.Tail ever opened, by id
    disp,       \* the receiver goroutine of each session
    hist,       \* per session: the events its receiver took from Lines
    acc,        \* the accumulator: AddFields calls in order
    starter,    \* the thread that calls Start
    stopper,    \* the thread that calls Stop
    crashed     \* the process died of an unrecovered panic

vars == <<parser, call, seen, firsts, grokNil, globs, mu, l_parsers, l_acc,
          tailers, wg, sess, disp, hist, acc, starter, stopper, crashed>>

parseVars == <<call, seen, firsts>>
pluginVars == <<grokNil, globs, mu, l_parsers, l_acc, tailers, wg, sess, disp,
                hist, acc, starter, stopper, crashed>>

----------------------------------------------------------------------------
(* Bounds *)

MaxCalls == 2       \* ParseLine calls on the same line in SpecParse
MaxStarts == 2      \* calls of Start
MaxStops == 2       \* calls of Stop
MaxSessions == 2    \* tail.TailFile succeeds at most this often
MaxEvents == 2      \* events delivered on all Lines channels together
MaxLineLen == 3     \* characters in one line of Parser.CustomPatterns

----------------------------------------------------------------------------
(* Data *)

\* capture names and values; "" is the empty string of the code's k == "" test
Keys == {"", "response", "bytes"}
Vals == {"", "200"}
\* glob patterns of the key filters
Patterns == {"*", "response", "bytes"}
\* the TagKeys / FieldKeys* lists that are tried (as sets of patterns)
FilterLists == {{}, {"*"}, {"response"}, {"bytes"}}

EmptyMap == [x \in {} |-> ""]

Put(m, k, v) == [x \in (DOMAIN m) \cup {k} |-> IF x = k THEN v ELSE m[x]]

\* map[string]string values over Keys
CaptureMaps == UNION {[D -> Vals] : D \in SUBSET Keys}

\* A line is represented by what the compiled grammar extracts from it.
NoMatchLine == [match |-> FALSE, values |-> EmptyMap]
MatchLine(f) == [match |-> TRUE, values |-> f]
AllLines == {NoMatchLine} \cup {MatchLine(f) : f \in CaptureMaps}

----------------------------------------------------------------------------
(* grok.Parser *)

\* a glob.Glob field that was never assigned
NilGlob == [nil |-> TRUE, pats |-> {}]

\* internal.CompileFilter: a matcher of the listed patterns
CompileFilter(list) == [nil |-> FALSE, pats |-> list]

\* glob.Glob.Match
Match(g, k) == \E pt \in g.pats : pt = "*" \/ pt = k

\* the Parser struct as configured, before Compile
NewParser(valid, tk, fs, fi, ff) ==
    [valid |-> valid, g |-> FALSE,
     TagKeys |-> tk, FieldKeysStr |-> fs, FieldKeysInt |-> fi, FieldKeysFloat |-> ff,
     tagKeys |-> NilGlob, fieldKeysStr |-> NilGlob,
     fieldKeysInt |-> NilGlob, fieldKeysFloat |-> NilGlob]

\* Parser.Compile: the grammar, then each filter whose list is not empty
Compile(p) ==
    IF ~p.valid
    THEN [err |-> TRUE, p |-> [p EXCEPT !.g = TRUE]]
    ELSE [err |-> FALSE,
          p |-> [p EXCEPT
                   !.g = TRUE,
                   !.tagKeys = IF p.TagKeys # {} THEN CompileFilter(p.TagKeys) ELSE @,
                   !.fieldKeysStr = IF p.FieldKeysStr # {} THEN CompileFilter(p.FieldKeysStr) ELSE @,
                   !.fieldKeysInt = IF p.FieldKeysInt # {} THEN CompileFilter(p.FieldKeysInt) ELSE @,
                   !.fieldKeysFloat = IF p.FieldKeysFloat # {} THEN CompileFilter(p.FieldKeysFloat) ELSE @]]

\* p.g.Parse(p.Pattern, line)
GrokParse(p, line) ==
    IF line.match THEN [err |-> FALSE, values |-> line.values]
    ELSE [err |-> TRUE, values |-> EmptyMap]

\* mutant of LoopBody: the int filter is asked before the tag filter
LoopBodyIntFirst(p, k, v, tf) ==
    IF k = "" \/ v = "" THEN tf
    ELSE IF ~p.fieldKeysInt.nil
    THEN IF Match(p.fieldKeysInt, k) THEN [tf EXCEPT !.fields = Put(@, k, v)] ELSE tf
    ELSE IF ~p.tagKeys.nil /\ Match(p.tagKeys, k)
    THEN [tf EXCEPT !.tags = Put(@, k, v)]
    ELSE [tf EXCEPT !.fields = Put(@, k, v)]

\* mutant of LoopBody: a capture is skipped only when name and value are both empty
LoopBodySkipBoth(p, k, v, tf) ==
    IF k = "" /\ v = "" THEN tf
    ELSE IF ~p.tagKeys.nil /\ Match(p.tagKeys, k)
    THEN [tf EXCEPT !.tags = Put(@, k, v)]
    ELSE [tf EXCEPT !.fields = Put(@, k, v)]

\* one iteration of ParseLine's loop over the captures, on capture k = v
LoopBody(p, k, v, tf) ==
    IF k = "" \/ v = "" THEN tf
    ELSE IF ~p.tagKeys.nil /\ Match(p.tagKeys, k)
    THEN [tf EXCEPT !.tags = Put(@, k, v)]
    ELSE IF ~p.fieldKeysInt.nil
    THEN IF Match(p.fieldKeysInt, k) THEN [tf EXCEPT !.fields = Put(@, k, v)] ELSE tf
    ELSE IF ~p.fieldKeysFloat.nil
    THEN IF Match(p.fieldKeysFloat, k) THEN [tf EXCEPT !.fields = Put(@, k, v)] ELSE tf
    ELSE IF ~p.fieldKeysStr.nil
    THEN IF Match(p.fieldKeysStr, k) THEN [tf EXCEPT !.fields = Put(@, k, v)] ELSE tf
    ELSE [tf EXCEPT !.fields = Put(@, k, v)]

\* the whole loop, in some iteration order
RECURSIVE RangeLoop(_, _, _, _)
RangeLoop(p, values, todo, tf) ==
    IF todo = {} THEN tf
    ELSE LET k == CHOOSE x \in todo : TRUE
         IN RangeLoop(p, values, todo \ {k}, LoopBody(p, k, values[k], tf))

\* telegraf.NewMetric("grok", tags, fields, time.Now()): a metric or an error
NewMetric(tags, fields, fails) ==
    IF fails THEN [err |-> TRUE, tags |-> EmptyMap, fields |-> EmptyMap]
    ELSE [err |-> FALSE, tags |-> tags, fields |-> fields]

\* mutant of ParseLine: the error of p.g.Parse is not looked at
ParseLineNoErrCheck(p, line, metricFails) ==
    LET tf == RangeLoop(p, line.values, DOMAIN line.values,
                        [tags |-> EmptyMap, fields |-> EmptyMap])
    IN NewMetric(tf.tags, tf.fields, metricFails)

\* Parser.ParseLine as one step (what a receiver goroutine calls)
ParseLine(p, line, metricFails) ==
    LET parsed == GrokParse(p, line)
    IN IF parsed.err
       THEN [err |-> TRUE, tags |-> EmptyMap, fields |-> EmptyMap]
       ELSE LET tf == RangeLoop(p, parsed.values, DOMAIN parsed.values,
                                [tags |-> EmptyMap, fields |-> EmptyMap])
            IN NewMetric(tf.tags, tf.fields, metricFails)

----------------------------------------------------------------------------
(* SpecParse: one Parser, compiled once, parsing one line MaxCalls times *)

NoRet == [err |-> TRUE, tags |-> EmptyMap, fields |-> EmptyMap]
EmptyTF == [tags |-> EmptyMap, fields |-> EmptyMap]

\* a thread that is not inside Start: n counts its calls of Start; the other
\* fields are the locals of the call and a record of what the call has done
\* (resolved: the files g.Match() gave, attempts: the tail.TailFile calls in
\* the order seq, with the session id sid of those that succeeded,
\* pre: the number of sessions when the call began)
StarterIdle ==
    [pc |-> "idle", n |-> 0, ret |-> "none", ci |-> 0, pi |-> 0,
     todo |-> {}, errS |-> <<>>, sid |-> 0, resolved |-> {},
     attempts |-> {}, pre |-> 0]

\* a thread that is not inside Stop: n counts its calls of Stop, ts is the
\* slice the loop ranges over and i the position in it; lens records, for
\* every call that has taken the lock, the length of the slice it ranged over
StopperIdle == [pc |-> "idle", n |-> 0, i |-> 0, ts |-> <<>>, lens |-> <<>>]

\* the plugin before Start (NewLogParserPlugin); the plugin is idle in SpecParse
PluginCreated ==
    /\ mu = "free"
    /\ l_parsers = <<>>
    /\ l_acc = FALSE
    /\ tailers = <<>>
    /\ wg = 0
    /\ sess = <<>>
    /\ disp = <<>>
    /\ hist = <<>>
    /\ acc = <<>>
    /\ starter = StarterIdle
    /\ stopper = StopperIdle
    /\ crashed = FALSE

InitParse ==
    /\ \E valid \in BOOLEAN, tk \in FilterLists, fs \in FilterLists,
          fi \in FilterLists, ff \in FilterLists :
          parser = NewParser(valid, tk, fs, fi, ff)
    /\ \E line \in AllLines :
          call = [pc |-> "new", n |-> 0, line |-> line, todo |-> {},
                  tf |-> EmptyTF, first |-> "-", ret |-> NoRet]
    /\ seen = {}
    /\ firsts = {}
    /\ grokNil = FALSE
    /\ globs = <<>>
    /\ PluginCreated

\* Parser.Compile
PCompile ==
    /\ call.pc = "new"
    /\ LET r == Compile(parser)
       IN /\ parser' = r.p
          /\ call' = [call EXCEPT !.pc = IF r.err THEN "compileErr" ELSE "ready"]
    /\ UNCHANGED <<seen, firsts, pluginVars>>

\* ParseLine up to the loop: p.g.Parse, its error check, the two empty maps
PParse ==
    /\ call.pc = "ready"
    /\ call.n < MaxCalls
    /\ LET parsed == GrokParse(parser, call.line)
       IN IF parsed.err
          THEN call' = [call EXCEPT !.n = @ + 1, !.ret = NoRet]
          ELSE call' = [call EXCEPT !.pc = "loop", !.todo = DOMAIN parsed.values,
                                    !.tf = EmptyTF, !.first = "-"]
    /\ UNCHANGED <<parser, seen, firsts, pluginVars>>

\* mutant of PLoop: a capture that becomes a tag ends the loop (break for continue)
PLoopBreak ==
    /\ call.pc = "loop"
    /\ call.todo # {}
    /\ \E k \in call.todo :
         LET v == call.line.values[k]
             isTag == k # "" /\ v # "" /\ ~parser.tagKeys.nil /\ Match(parser.tagKeys, k)
         IN call' = [call EXCEPT !.todo = IF isTag THEN {} ELSE @ \ {k},
                                 !.tf = LoopBody(parser, k, v, @),
                                 !.first = IF @ = "-" THEN k ELSE @]
    /\ UNCHANGED <<parser, seen, firsts, pluginVars>>

\* one iteration of "for k, v := range values", on any capture not yet visited
PLoop ==
    /\ call.pc = "loop"
    /\ call.todo # {}
    /\ \E k \in call.todo :
         call' = [call EXCEPT !.todo = @ \ {k},
                              !.tf = LoopBody(parser, k, call.line.values[k], @),
                              !.first = IF @ = "-" THEN k ELSE @]
    /\ UNCHANGED <<parser, seen, firsts, pluginVars>>

\* return telegraf.NewMetric(...)
PReturn ==
    /\ call.pc = "loop"
    /\ call.todo = {}
    /\ \E fails \in BOOLEAN :
         /\ call' = [call EXCEPT !.pc = "ready", !.n = @ + 1,
                                 !.ret = NewMetric(call.tf.tags, call.tf.fields, fails)]
         /\ seen' = IF fails THEN seen ELSE seen \cup {<<call.tf.tags, call.tf.fields>>}
         /\ firsts' = IF fails THEN firsts ELSE firsts \cup {call.first}
    /\ UNCHANGED <<parser, pluginVars>>

NextParse == PCompile \/ PParse \/ PLoop \/ PReturn

SpecParse == InitParse /\ [][NextParse]_vars

----------------------------------------------------------------------------
(* Claims about ParseLine, checked under SpecParse *)

\* a ParseLine call has returned a metric; call.ret holds its tags and fields
Returned == call.pc = "ready" /\ call.n > 0 /\ ~call.ret.err

Captures == call.line.values
NonEmpty(k) == k \in DOMAIN Captures /\ k # "" /\ Captures[k] # ""
TagMatch(k) == ~parser.tagKeys.nil /\ Match(parser.tagKeys, k)
IntMatch(k) == ~parser.fieldKeysInt.nil /\ Match(parser.fieldKeysInt, k)
FloatMatch(k) == ~parser.fieldKeysFloat.nil /\ Match(parser.fieldKeysFloat, k)
StrMatch(k) == ~parser.fieldKeysStr.nil /\ Match(parser.fieldKeysStr, k)
InTags(k) == k \in DOMAIN call.ret.tags /\ call.ret.tags[k] = Captures[k]
InFields(k) == k \in DOMAIN call.ret.fields /\ call.ret.fields[k] = Captures[k]

\* C1: every capture with non-empty name and value is classified by the first
\* matching filter in the order tag, int, float, string, and a capture that
\* matches no configured filter becomes a field: each such capture is in exactly
\* one of tags and fields of the returned metric, none is dropped.
C1_EveryCaptureClassified ==
    Returned =>
        \A k \in DOMAIN Captures :
            NonEmpty(k) =>
                IF TagMatch(k)
                THEN InTags(k) /\ k \notin DOMAIN call.ret.fields
                ELSE InFields(k) /\ k \notin DOMAIN call.ret.tags

\* C2: with the int filter and the float filter both configured, a capture that
\* matches the int filter and another that matches only the float filter are
\* both in fields of the returned metric and neither is in tags.
C2_IntAndFloatBothFields ==
    (Returned /\ ~parser.fieldKeysInt.nil /\ ~parser.fieldKeysFloat.nil) =>
        \A k1 \in DOMAIN Captures, k2 \in DOMAIN Captures :
            ( /\ NonEmpty(k1) /\ NonEmpty(k2)
              /\ ~TagMatch(k1) /\ ~TagMatch(k2)
              /\ IntMatch(k1)
              /\ FloatMatch(k2) /\ ~IntMatch(k2) /\ ~StrMatch(k2) )
            => /\ InFields(k1) /\ InFields(k2)
               /\ k1 \notin DOMAIN call.ret.tags
               /\ k2 \notin DOMAIN call.ret.tags

\* C3: a non-empty capture whose name matches the tag filter is in tags of the
\* returned metric and never in the fields map, whatever field filters it matches.
C3_TagKeyAlwaysTag ==
    /\ \A k \in DOMAIN Captures :
           (call.pc \in {"loop", "ready"} /\ TagMatch(k)) => k \notin DOMAIN call.tf.fields
    /\ Returned =>
           \A k \in DOMAIN Captures :
               (NonEmpty(k) /\ TagMatch(k)) => InTags(k) /\ k \notin DOMAIN call.ret.fields

\* C3 witness: a returned metric whose tag also matches the int and float filters
C3_Witness ==
    /\ Returned
    /\ \E k \in DOMAIN Captures :
           NonEmpty(k) /\ TagMatch(k) /\ IntMatch(k) /\ FloatMatch(k) /\ InTags(k)

\* C4: a capture whose name or value is empty is in neither tags nor fields of
\* the returned metric, whatever filters are configured.
C4_EmptyCaptureExcluded ==
    Returned =>
        \A k \in DOMAIN Captures :
            (k = "" \/ Captures[k] = "") =>
                k \notin DOMAIN call.ret.tags /\ k \notin DOMAIN call.ret.fields

\* C4 witness: a metric returned for a line with an empty-named capture, an
\* empty-valued capture whose name the tag filter matches, and a kept capture
C4_Witness ==
    /\ Returned
    /\ "" \in DOMAIN Captures /\ Captures[""] # ""
    /\ \E k \in DOMAIN Captures : k # "" /\ Captures[k] = "" /\ TagMatch(k)
    /\ \E k \in DOMAIN Captures : NonEmpty(k) /\ InFields(k)

\* C6: all calls of ParseLine on the same line with the same compiled Parser
\* return the same tag map and the same field map, in whatever order the
\* captures are iterated.
C6_SameLineSameMaps == Cardinality(seen) <= 1

\* C6 witness: two returned calls that began their iteration with different
\* captures, on a line that gives a tag and a field
C6_Witness ==
    /\ Cardinality(firsts) >= 2
    /\ Returned
    /\ DOMAIN call.ret.tags # {}
    /\ DOMAIN call.ret.fields # {}

----------------------------------------------------------------------------
(* The plugin: LogParserPlugin.Start, receiver, Stop *)

FileNames == {"f1", "f2"}

\* what globpath.Compile and GlobPath.Match give for one entry of l.Files:
\* a pattern that does not compile, or the set of files it matches
BadGlob == [ok |-> FALSE, files |-> {}]
GoodGlob(fs) == [ok |-> TRUE, files |-> fs]
\* the l.Files configurations that are tried: one pattern matching two files,
\* two patterns matching the same file, a pattern matching nothing, and a
\* pattern that does not compile before or after a good one
FilesConfigs ==
    { <<GoodGlob({"f1", "f2"})>>,
      <<GoodGlob({"f1"}), GoodGlob({"f1"})>>,
      <<GoodGlob({}), GoodGlob({"f2"})>>,
      <<BadGlob, GoodGlob({"f1"})>>,
      <<GoodGlob({"f1"}), BadGlob>> }

\* the lines that are appended to the tailed files
AccessLine == MatchLine([response |-> "200", bytes |-> "612"])
TailLines == {NoMatchLine, AccessLine}

\* a tail.Tail as tail.TailFile returns it
NewTail(file) == [file |-> file, stops |-> 0, cleanups |-> 0, closed |-> FALSE]

RECURSIVE SumLen(_)
SumLen(h) == IF h = <<>> THEN 0 ELSE Len(Head(h)) + SumLen(Tail(h))

\* events taken from all Lines channels so far
Delivered == SumLen(hist)

Init ==
    /\ \E valid \in BOOLEAN :
          parser = NewParser(valid, {}, {}, {"response"}, {"bytes"})
    /\ call = [pc |-> "new", n |-> 0, line |-> NoMatchLine, todo |-> {},
               tf |-> EmptyTF, first |-> "-", ret |-> NoRet]
    /\ seen = {}
    /\ firsts = {}
    /\ grokNil \in BOOLEAN
    /\ globs \in FilesConfigs
    /\ PluginCreated

----------------------------------------------------------------------------
(* Start *)

\* a caller invokes Start
StartCall ==
    /\ ~crashed
    /\ starter.pc = "idle"
    /\ starter.n < MaxStarts
    /\ starter' = [starter EXCEPT !.pc = "lock", !.n = @ + 1]
    /\ UNCHANGED <<parser, parseVars, grokNil, globs, mu, l_parsers, l_acc, tailers,
                   wg, sess, disp, hist, acc, stopper, crashed>>

\* mutant of StartLock: Start enters its body without waiting for the lock
StartLockNoMutex ==
    /\ ~crashed
    /\ starter.pc = "lock"
    /\ mu' = "Start"
    /\ starter' = [starter EXCEPT !.pc = "init", !.pre = Len(sess)]
    /\ UNCHANGED <<parser, parseVars, grokNil, globs, l_parsers, l_acc, tailers,
                   wg, sess, disp, hist, acc, stopper, crashed>>

\* l.Lock()
StartLock ==
    /\ ~crashed
    /\ starter.pc = "lock"
    /\ mu = "free"
    /\ mu' = "Start"
    /\ starter' = [starter EXCEPT !.pc = "init", !.pre = Len(sess)]
    /\ UNCHANGED <<parser, parseVars, grokNil, globs, l_parsers, l_acc, tailers,
                   wg, sess, disp, hist, acc, stopper, crashed>>

\* l.acc = acc; l.parsers = make([]LogParser, 0)
StartInit ==
    /\ ~crashed
    /\ starter.pc = "init"
    /\ l_acc' = TRUE
    /\ l_parsers' = <<>>
    /\ starter' = [starter EXCEPT !.pc = "reflect"]
    /\ UNCHANGED <<parser, parseVars, grokNil, globs, mu, tailers,
                   wg, sess, disp, hist, acc, stopper, crashed>>

\* mutant of StartReflect: the empty parser list is not checked
StartReflectNoCheck ==
    /\ ~crashed
    /\ starter.pc = "reflect"
    /\ l_parsers' = IF grokNil THEN <<>> ELSE <<"GrokParser">>
    /\ starter' = [starter EXCEPT !.pc = "compile", !.ci = 1]
    /\ UNCHANGED <<parser, parseVars, grokNil, globs, mu, l_acc, tailers,
                   wg, sess, disp, hist, acc, stopper, crashed>>

\* the reflection loop over the plugin's fields appends the non-nil GrokParser;
\* with no parser, Start returns the "no parsers defined" error
StartReflect ==
    /\ ~crashed
    /\ starter.pc = "reflect"
    /\ l_parsers' = IF grokNil THEN <<>> ELSE <<"GrokParser">>
    /\ starter' = IF Len(l_parsers') = 0
                  THEN [starter EXCEPT !.pc = "unlock", !.ret = "noparsers"]
                  ELSE [starter EXCEPT !.pc = "compile", !.ci = 1]
    /\ UNCHANGED <<parser, parseVars, grokNil, globs, mu, l_acc, tailers,
                   wg, sess, disp, hist, acc, stopper, crashed>>

\* one iteration of the compile loop: parser.Compile(), return its error
StartCompile ==
    /\ ~crashed
    /\ starter.pc = "compile"
    /\ starter.ci <= Len(l_parsers)
    /\ LET r == Compile(parser)
       IN /\ parser' = r.p
          /\ starter' = IF r.err
                        THEN [starter EXCEPT !.pc = "unlock", !.ret = "compile"]
                        ELSE [starter EXCEPT !.ci = @ + 1]
    /\ UNCHANGED <<parseVars, grokNil, globs, mu, l_parsers, l_acc, tailers,
                   wg, sess, disp, hist, acc, stopper, crashed>>

\* the compile loop is over; seek is set; the loop over l.Files begins
StartSeek ==
    /\ ~crashed
    /\ starter.pc = "compile"
    /\ starter.ci > Len(l_parsers)
    /\ starter' = [starter EXCEPT !.pc = "glob", !.pi = 1]
    /\ UNCHANGED <<parser, parseVars, grokNil, globs, mu, l_parsers, l_acc, tailers,
                   wg, sess, disp, hist, acc, stopper, crashed>>

\* where Start goes after a file of the current pattern has been dealt with
AfterFile(st) ==
    IF st.todo = {} THEN [st EXCEPT !.pc = "glob", !.pi = @ + 1]
    ELSE [st EXCEPT !.pc = "files"]

\* g, err := globpath.Compile(filepath); on an error, log it; range g.Match().
\* A pattern that does not compile leaves g nil, and g.Match() panics.
StartGlob ==
    /\ ~crashed
    /\ starter.pc = "glob"
    /\ starter.pi <= Len(globs)
    /\ LET g == globs[starter.pi]
       IN IF ~g.ok
          THEN /\ crashed' = TRUE
               /\ starter' = [starter EXCEPT !.pc = "panic"]
          ELSE /\ crashed' = crashed
               /\ starter' = AfterFile(
                     [starter EXCEPT
                        !.todo = g.files,
                        !.resolved = @ \cup {<<starter.pi, f>> : f \in g.files}])
    /\ UNCHANGED <<parser, parseVars, grokNil, globs, mu, l_parsers, l_acc, tailers,
                   wg, sess, disp, hist, acc, stopper>>

\* mutant of StartOpen: a file that fails to open ends the loop over the files
StartOpenAbort ==
    /\ ~crashed
    /\ starter.pc = "files"
    /\ starter.todo # {}
    /\ \E f \in starter.todo, ok \in BOOLEAN :
         /\ ok => Len(sess) < MaxSessions
         /\ IF ok
            THEN /\ sess' = Append(sess, NewTail(f))
                 /\ disp' = Append(disp, [pc |-> "new", ps |-> <<>>, k |-> 0])
                 /\ hist' = Append(hist, <<>>)
                 /\ wg' = wg + 1
                 /\ starter' = [starter EXCEPT
                       !.pc = "go", !.todo = @ \ {f}, !.sid = Len(sess) + 1,
                       !.attempts = @ \cup {[pi |-> starter.pi, file |-> f,
                                             ok |-> TRUE, sid |-> Len(sess) + 1,
                                             seq |-> Cardinality(starter.attempts) + 1]}]
            ELSE /\ starter' = AfterFile([starter EXCEPT
                       !.todo = {}, !.errS = Append(@, f),
                       !.attempts = @ \cup {[pi |-> starter.pi, file |-> f,
                                             ok |-> FALSE, sid |-> 0,
                                             seq |-> Cardinality(starter.attempts) + 1]}])
                 /\ UNCHANGED <<sess, disp, hist, wg>>
    /\ UNCHANGED <<parser, parseVars, grokNil, globs, mu, l_parsers, l_acc, tailers,
                   acc, stopper, crashed>>

\* mutant of StartOpen: the receiver is launched without l.wg.Add(1)
StartOpenNoAdd ==
    /\ ~crashed
    /\ starter.pc = "files"
    /\ starter.todo # {}
    /\ \E f \in starter.todo, ok \in BOOLEAN :
         /\ ok => Len(sess) < MaxSessions
         /\ IF ok
            THEN /\ sess' = Append(sess, NewTail(f))
                 /\ disp' = Append(disp, [pc |-> "new", ps |-> <<>>, k |-> 0])
                 /\ hist' = Append(hist, <<>>)
                 /\ wg' = wg
                 /\ starter' = [starter EXCEPT
                       !.pc = "go", !.todo = @ \ {f}, !.sid = Len(sess) + 1,
                       !.attempts = @ \cup {[pi |-> starter.pi, file |-> f,
                                             ok |-> TRUE, sid |-> Len(sess) + 1,
                                             seq |-> Cardinality(starter.attempts) + 1]}]
            ELSE /\ starter' = AfterFile([starter EXCEPT
                       !.todo = @ \ {f}, !.errS = Append(@, f),
                       !.attempts = @ \cup {[pi |-> starter.pi, file |-> f,
                                             ok |-> FALSE, sid |-> 0,
                                             seq |-> Cardinality(starter.attempts) + 1]}])
                 /\ UNCHANGED <<sess, disp, hist, wg>>
    /\ UNCHANGED <<parser, parseVars, grokNil, globs, mu, l_parsers, l_acc, tailers,
                   acc, stopper, crashed>>

\* tail.TailFile(file, ...) on any file of g.Match() not yet visited: on an
\* error, errS += err.Error() + " " and continue; else l.wg.Add(1)
StartOpen ==
    /\ ~crashed
    /\ starter.pc = "files"
    /\ starter.todo # {}
    /\ \E f \in starter.todo, ok \in BOOLEAN :
         /\ ok => Len(sess) < MaxSessions
         /\ IF ok
            THEN /\ sess' = Append(sess, NewTail(f))
                 /\ disp' = Append(disp, [pc |-> "new", ps |-> <<>>, k |-> 0])
                 /\ hist' = Append(hist, <<>>)
                 /\ wg' = wg + 1
                 /\ starter' = [starter EXCEPT
                       !.pc = "go", !.todo = @ \ {f}, !.sid = Len(sess) + 1,
                       !.attempts = @ \cup {[pi |-> starter.pi, file |-> f,
                                             ok |-> TRUE, sid |-> Len(sess) + 1,
                                             seq |-> Cardinality(starter.attempts) + 1]}]
            ELSE /\ starter' = AfterFile([starter EXCEPT
                       !.todo = @ \ {f}, !.errS = Append(@, f),
                       !.attempts = @ \cup {[pi |-> starter.pi, file |-> f,
                                             ok |-> FALSE, sid |-> 0,
                                             seq |-> Cardinality(starter.attempts) + 1]}])
                 /\ UNCHANGED <<sess, disp, hist, wg>>
    /\ UNCHANGED <<parser, parseVars, grokNil, globs, mu, l_parsers, l_acc, tailers,
                   acc, stopper, crashed>>

\* go l.receiver(tailer)
StartGo ==
    /\ ~crashed
    /\ starter.pc = "go"
    /\ disp' = [disp EXCEPT ![starter.sid].pc = "recv"]
    /\ starter' = [starter EXCEPT !.pc = "append"]
    /\ UNCHANGED <<parser, parseVars, grokNil, globs, mu, l_parsers, l_acc, tailers,
                   wg, sess, hist, acc, stopper, crashed>>

\* l.tailers = append(l.tailers, tailer)
StartAppend ==
    /\ ~crashed
    /\ starter.pc = "append"
    /\ tailers' = Append(tailers, starter.sid)
    /\ starter' = AfterFile(starter)
    /\ UNCHANGED <<parser, parseVars, grokNil, globs, mu, l_parsers, l_acc,
                   wg, sess, disp, hist, acc, stopper, crashed>>

\* after the loop over l.Files: the combined error if errS != "", else nil
StartReturn ==
    /\ ~crashed
    /\ starter.pc = "glob"
    /\ starter.pi > Len(globs)
    /\ starter' = [starter EXCEPT !.pc = "unlock",
                                  !.ret = IF starter.errS # <<>> THEN "open" ELSE "nil"]
    /\ UNCHANGED <<parser, parseVars, grokNil, globs, mu, l_parsers, l_acc, tailers,
                   wg, sess, disp, hist, acc, stopper, crashed>>

\* the deferred l.Unlock(); Start has returned starter.ret
StartUnlock ==
    /\ ~crashed
    /\ starter.pc = "unlock"
    /\ mu' = "free"
    /\ starter' = [StarterIdle EXCEPT !.n = starter.n]
    /\ UNCHANGED <<parser, parseVars, grokNil, globs, l_parsers, l_acc, tailers,
                   wg, sess, disp, hist, acc, stopper, crashed>>

----------------------------------------------------------------------------
(* receiver: one goroutine per session *)

\* the AddFields call that forwards the metric r of event n of session i
AccEntry(i, n, name, r) ==
    [sid |-> i, n |-> n, parser |-> name, tags |-> r.tags, fields |-> r.fields]

\* mutant of RecvLine: a read-error event ends the receiver
RecvLineErrExits(i) ==
    /\ ~crashed
    /\ disp[i].pc = "recv"
    /\ ~sess[i].closed
    /\ Delivered < MaxEvents
    /\ \/ /\ hist' = [hist EXCEPT ![i] = Append(@,
                         [err |-> TRUE, line |-> NoMatchLine, ps |-> <<>>, res |-> <<>>])]
          /\ disp' = [disp EXCEPT ![i].pc = "done"]
          /\ wg' = wg - 1
       \/ \E ln \in TailLines :
          /\ hist' = [hist EXCEPT ![i] = Append(@,
                         [err |-> FALSE, line |-> ln, ps |-> l_parsers, res |-> <<>>])]
          /\ disp' = IF l_parsers = <<>> THEN disp
                     ELSE [disp EXCEPT ![i] = [pc |-> "parse", ps |-> l_parsers, k |-> 1]]
          /\ wg' = wg
    /\ UNCHANGED <<parser, parseVars, grokNil, globs, mu, l_parsers, l_acc, tailers,
                   sess, acc, starter, stopper, crashed>>

\* "line = range tailer.Lines" takes the next event: a read error is logged and
\* skipped; for a line, the loop over l.parsers begins
RecvLine(i) ==
    /\ ~crashed
    /\ disp[i].pc = "recv"
    /\ ~sess[i].closed
    /\ Delivered < MaxEvents
    /\ \/ /\ hist' = [hist EXCEPT ![i] = Append(@,
                         [err |-> TRUE, line |-> NoMatchLine, ps |-> <<>>, res |-> <<>>])]
          /\ disp' = disp
       \/ \E ln \in TailLines :
          /\ hist' = [hist EXCEPT ![i] = Append(@,
                         [err |-> FALSE, line |-> ln, ps |-> l_parsers, res |-> <<>>])]
          /\ disp' = IF l_parsers = <<>> THEN disp
                     ELSE [disp EXCEPT ![i] = [pc |-> "parse", ps |-> l_parsers, k |-> 1]]
    /\ UNCHANGED <<parser, parseVars, grokNil, globs, mu, l_parsers, l_acc, tailers,
                   wg, sess, acc, starter, stopper, crashed>>

\* mutant of RecvParse: AddFields is called whatever ParseLine returned
RecvParseAlwaysAdd(i) ==
    /\ ~crashed
    /\ disp[i].pc = "parse"
    /\ LET n == Len(hist[i])
           name == disp[i].ps[disp[i].k]
       IN \E fails \in BOOLEAN :
            LET r == ParseLine(parser, hist[i][n].line, fails)
            IN /\ acc' = Append(acc, AccEntry(i, n, name, r))
               /\ hist' = [hist EXCEPT ![i][n].res =
                              Append(@, IF r.err THEN "fail" ELSE "ok")]
    /\ disp' = IF disp[i].k < Len(disp[i].ps)
               THEN [disp EXCEPT ![i].k = @ + 1]
               ELSE [disp EXCEPT ![i] = [pc |-> "recv", ps |-> <<>>, k |-> 0]]
    /\ UNCHANGED <<parser, parseVars, grokNil, globs, mu, l_parsers, l_acc, tailers,
                   wg, sess, starter, stopper, crashed>>

\* mutant of RecvParse: the metric is handed on out of turn (put in front of
\* those forwarded earlier), as when each line is forwarded by a task of its own
RecvParseOutOfTurn(i) ==
    /\ ~crashed
    /\ disp[i].pc = "parse"
    /\ LET n == Len(hist[i])
           name == disp[i].ps[disp[i].k]
       IN \E fails \in BOOLEAN :
            LET r == ParseLine(parser, hist[i][n].line, fails)
            IN /\ acc' = IF ~r.err THEN <<AccEntry(i, n, name, r)>> \o acc ELSE acc
               /\ hist' = [hist EXCEPT ![i][n].res =
                              Append(@, IF r.err THEN "fail" ELSE "ok")]
    /\ disp' = IF disp[i].k < Len(disp[i].ps)
               THEN [disp EXCEPT ![i].k = @ + 1]
               ELSE [disp EXCEPT ![i] = [pc |-> "recv", ps |-> <<>>, k |-> 0]]
    /\ UNCHANGED <<parser, parseVars, grokNil, globs, mu, l_parsers, l_acc, tailers,
                   wg, sess, starter, stopper, crashed>>

\* one iteration of "for _, parser := range l.parsers": ParseLine, then
\* AddFields if it returned no error, else the log line
RecvParse(i) ==
    /\ ~crashed
    /\ disp[i].pc = "parse"
    /\ LET n == Len(hist[i])
           name == disp[i].ps[disp[i].k]
       IN \E fails \in BOOLEAN :
            LET r == ParseLine(parser, hist[i][n].line, fails)
            IN /\ acc' = IF ~r.err THEN Append(acc, AccEntry(i, n, name, r)) ELSE acc
               /\ hist' = [hist EXCEPT ![i][n].res =
                              Append(@, IF r.err THEN "fail" ELSE "ok")]
    /\ disp' = IF disp[i].k < Len(disp[i].ps)
               THEN [disp EXCEPT ![i].k = @ + 1]
               ELSE [disp EXCEPT ![i] = [pc |-> "recv", ps |-> <<>>, k |-> 0]]
    /\ UNCHANGED <<parser, parseVars, grokNil, globs, mu, l_parsers, l_acc, tailers,
                   wg, sess, starter, stopper, crashed>>

\* the range loop finds tailer.Lines closed; the deferred l.wg.Done()
RecvExit(i) ==
    /\ ~crashed
    /\ disp[i].pc = "recv"
    /\ sess[i].closed
    /\ disp' = [disp EXCEPT ![i].pc = "done"]
    /\ wg' = wg - 1
    /\ UNCHANGED <<parser, parseVars, grokNil, globs, mu, l_parsers, l_acc, tailers,
                   sess, hist, acc, starter, stopper, crashed>>

\* the tail library closes the Lines channel of a session that was told to stop
CloseLines(i) ==
    /\ ~crashed
    /\ sess[i].stops > 0
    /\ ~sess[i].closed
    /\ sess' = [sess EXCEPT ![i].closed = TRUE]
    /\ UNCHANGED <<parser, parseVars, grokNil, globs, mu, l_parsers, l_acc, tailers,
                   wg, disp, hist, acc, starter, stopper, crashed>>

----------------------------------------------------------------------------
(* Stop *)

\* a caller invokes Stop
StopCall ==
    /\ ~crashed
    /\ stopper.pc = "idle"
    /\ stopper.n < MaxStops
    /\ stopper' = [stopper EXCEPT !.pc = "lock", !.n = @ + 1]
    /\ UNCHANGED <<parser, parseVars, grokNil, globs, mu, l_parsers, l_acc, tailers,
                   wg, sess, disp, hist, acc, starter, crashed>>

\* l.Lock(); the range over l.tailers is about to begin
StopLock ==
    /\ ~crashed
    /\ stopper.pc = "lock"
    /\ mu = "free"
    /\ mu' = "Stop"
    /\ stopper' = [stopper EXCEPT !.pc = "loop", !.i = 1, !.ts = tailers,
                                  !.lens = Append(@, Len(tailers))]
    /\ UNCHANGED <<parser, parseVars, grokNil, globs, l_parsers, l_acc, tailers,
                   wg, sess, disp, hist, acc, starter, crashed>>

\* one iteration of the loop over l.tailers: t.Stop(), log its error, t.Cleanup()
StopTailer ==
    /\ ~crashed
    /\ stopper.pc = "loop"
    /\ stopper.i <= Len(stopper.ts)
    /\ sess' = [sess EXCEPT ![stopper.ts[stopper.i]].stops = @ + 1,
                            ![stopper.ts[stopper.i]].cleanups = @ + 1]
    /\ stopper' = [stopper EXCEPT !.i = @ + 1]
    /\ UNCHANGED <<parser, parseVars, grokNil, globs, mu, l_parsers, l_acc, tailers,
                   wg, disp, hist, acc, starter, crashed>>

\* mutant of StopWait: Stop does not wait for the receivers
StopNoWait ==
    /\ ~crashed
    /\ stopper.pc = "loop"
    /\ stopper.i > Len(stopper.ts)
    /\ stopper' = [stopper EXCEPT !.pc = "unlock"]
    /\ UNCHANGED <<parser, parseVars, grokNil, globs, mu, l_parsers, l_acc, tailers,
                   wg, sess, disp, hist, acc, starter, crashed>>

\* l.wg.Wait() returns once the counter is zero
StopWait ==
    /\ ~crashed
    /\ stopper.pc = "loop"
    /\ stopper.i > Len(stopper.ts)
    /\ wg = 0
    /\ stopper' = [stopper EXCEPT !.pc = "unlock"]
    /\ UNCHANGED <<parser, parseVars, grokNil, globs, mu, l_parsers, l_acc, tailers,
                   wg, sess, disp, hist, acc, starter, crashed>>

\* mutant of StopUnlock: Stop forgets the sessions it has stopped
StopUnlockClears ==
    /\ ~crashed
    /\ stopper.pc = "unlock"
    /\ mu' = "free"
    /\ tailers' = <<>>
    /\ stopper' = [StopperIdle EXCEPT !.n = stopper.n, !.lens = stopper.lens]
    /\ UNCHANGED <<parser, parseVars, grokNil, globs, l_parsers, l_acc,
                   wg, sess, disp, hist, acc, starter, crashed>>

\* the deferred l.Unlock(); Stop has returned
StopUnlock ==
    /\ ~crashed
    /\ stopper.pc = "unlock"
    /\ mu' = "free"
    /\ stopper' = [StopperIdle EXCEPT !.n = stopper.n, !.lens = stopper.lens]
    /\ UNCHANGED <<parser, parseVars, grokNil, globs, l_parsers, l_acc, tailers,
                   wg, sess, disp, hist, acc, starter, crashed>>

----------------------------------------------------------------------------

Receive == \E i \in 1..Len(sess) : RecvLine(i)
Dispatch == \E i \in 1..Len(sess) : RecvParse(i)
Exit == \E i \in 1..Len(sess) : RecvExit(i)
Close == \E i \in 1..Len(sess) : CloseLines(i)

Next ==
    \/ StartCall \/ StartLock \/ StartInit \/ StartReflect \/ StartCompile
    \/ StartSeek \/ StartGlob \/ StartOpen \/ StartGo \/ StartAppend
    \/ StartReturn \/ StartUnlock
    \/ Receive \/ Dispatch \/ Exit \/ Close
    \/ StopCall \/ StopLock \/ StopTailer \/ StopWait \/ StopUnlock

Spec == Init /\ [][Next]_vars

\* the steps of a Start call that has been made, and of a Stop call that has
\* been made
StartSteps ==
    \/ StartLock \/ StartInit \/ StartReflect \/ StartCompile \/ StartSeek
    \/ StartGlob \/ StartOpen \/ StartGo \/ StartAppend \/ StartReturn \/ StartUnlock

StopSteps == StopLock \/ StopTailer \/ StopWait \/ StopUnlock

\* fair scheduling: a goroutine that can take a step eventually takes one, the
\* tail library closes the Lines channel of a stopped session, and every
\* AddFields call returns (Dispatch is one step). Nothing obliges the callers
\* to call Start or Stop, or the files to grow.
FairSpec ==
    /\ Spec
    /\ WF_vars(StartSteps)
    /\ WF_vars(StopSteps)
    /\ WF_vars(Dispatch)
    /\ WF_vars(Exit)
    /\ WF_vars(Close)

----------------------------------------------------------------------------
(* Claims about the plugin, checked under Spec *)

\* the AddFields calls made for event n of session i by parser name
AccCalls(i, n, name) ==
    Cardinality({a \in 1..Len(acc) :
                    acc[a].sid = i /\ acc[a].n = n /\ acc[a].parser = name})

\* the receiver of session i has finished with its event n
Processed(i, n) == n < Len(hist[i]) \/ disp[i].pc # "parse"

\* C5: for a line that the grammar does not match, ParseLine returns an error
\* and no metric, and the receiver makes no AddFields call for that line and
\* parser.
C5_NoMatchNoMetric ==
    \A i \in 1..Len(hist) : \A n \in 1..Len(hist[i]) :
        LET e == hist[i][n]
        IN (~e.err /\ ~e.line.match) =>
              /\ \A j \in 1..Len(e.res) : e.res[j] = "fail"
              /\ \A a \in 1..Len(acc) : ~(acc[a].sid = i /\ acc[a].n = n)

\* C5 witness: a receiver has called ParseLine on a line that does not match
C5_Witness ==
    \E i \in 1..Len(hist) : \E n \in 1..Len(hist[i]) :
        /\ ~hist[i][n].err
        /\ ~hist[i][n].line.match
        /\ hist[i][n].res = <<"fail">>

\* Start is past the step at which the setup error must have been found
SetupFailed ==
    /\ starter.pc \in {"compile", "glob", "files", "go", "append", "unlock", "panic"}
    /\ \/ l_parsers = <<>>
       \/ ~parser.valid /\ ~(starter.pc = "compile" /\ starter.ci <= Len(l_parsers))

\* C7: when the active parser set is empty or a parser's Compile returns an
\* error, Start returns that error and, in that call, has opened no session,
\* spawned no receiver and appended nothing to l.tailers.
C7_SetupFailureOpensNothing ==
    SetupFailed =>
        /\ starter.pc = "unlock"
        /\ starter.ret = IF l_parsers = <<>> THEN "noparsers" ELSE "compile"
        /\ starter.resolved = {} /\ starter.attempts = {}
        /\ Len(sess) = starter.pre
        /\ Len(disp) = starter.pre
        /\ Len(tailers) = starter.pre

\* C7 witness: Start is returning the error of Compile
C7_Witness == starter.pc = "unlock" /\ starter.ret = "compile" /\ parser.g

\* Start is returning from the loop over l.Files (the lock is still held)
StartReturning == starter.pc = "unlock" /\ starter.ret \in {"nil", "open"}

\* every file that the patterns of l.Files resolve to
AllResolved == {pf \in (1..Len(globs)) \X FileNames : pf[2] \in globs[pf[1]].files}

\* C8: a file that fails to open does not end the loop: when Start returns,
\* every resolved file has been attempted, the return value is the combined
\* error exactly if some open failed, every file that opened has a session in
\* l.tailers with a running receiver, and a file that failed has neither.
C8_OpenFailureDoesNotAbort ==
    StartReturning =>
        /\ {<<a.pi, a.file>> : a \in starter.attempts} = AllResolved
        /\ (starter.ret = "open") <=> (\E a \in starter.attempts : ~a.ok)
        /\ \A a \in starter.attempts :
              a.ok => /\ a.sid > starter.pre
                      /\ \E t \in 1..Len(tailers) : tailers[t] = a.sid
                      /\ sess[a.sid].file = a.file
                      /\ disp[a.sid].pc \in {"recv", "parse"}
        /\ Len(sess) - starter.pre = Cardinality({a \in starter.attempts : a.ok})
        /\ Len(tailers) = Len(sess)
        /\ Len(disp) = Len(sess)

\* C8 witness: Start is returning the combined error after a file of a pattern
\* failed to open and a later file of the same pattern was opened
C8_Witness ==
    /\ StartReturning
    /\ starter.ret = "open"
    /\ \E a \in starter.attempts, b \in starter.attempts :
          ~a.ok /\ b.ok /\ a.pi = b.pi /\ a.seq < b.seq

\* C9: when Stop returns, every session in l.tailers has been stopped and
\* cleaned up, every receiver that was spawned has exited, and the wait-group
\* counter is zero.
C9_StopLeavesNothingRunning ==
    stopper.pc = "unlock" =>
        /\ \A t \in 1..Len(tailers) :
              sess[tailers[t]].stops >= 1 /\ sess[tailers[t]].cleanups >= 1
        /\ \A i \in 1..Len(disp) : disp[i].pc = "done"
        /\ wg = 0

\* C9 witness: Stop is returning after a Start that opened two sessions, one of
\* which had delivered a line
C9_Witness ==
    /\ stopper.pc = "unlock"
    /\ starter.n >= 1
    /\ Len(tailers) >= 2
    /\ \E i \in 1..Len(hist) : hist[i] # <<>>

\* C10: for every line event and every parser of the list the receiver ranges
\* over, AddFields is called once if ParseLine returned a metric and not at all
\* if it returned an error; a read-error event causes no AddFields call.
C10_OneAddFieldsPerParsedLine ==
    /\ \A i \in 1..Len(hist) : \A n \in 1..Len(hist[i]) :
          LET e == hist[i][n]
          IN /\ e.err => e.res = <<>>
             /\ Len(e.res) <= Len(e.ps)
             /\ Processed(i, n) => Len(e.res) = Len(e.ps)
             /\ \A j \in 1..Len(e.ps) :
                   AccCalls(i, n, e.ps[j]) =
                      IF j <= Len(e.res) /\ e.res[j] = "ok" THEN 1 ELSE 0
    /\ \A a \in 1..Len(acc) :
          /\ acc[a].sid \in 1..Len(hist)
          /\ acc[a].n \in 1..Len(hist[acc[a].sid])
          /\ ~hist[acc[a].sid][acc[a].n].err
          /\ \E j \in 1..Len(hist[acc[a].sid][acc[a].n].ps) :
                hist[acc[a].sid][acc[a].n].ps[j] = acc[a].parser

\* C10 witness: one session has delivered a read error and a line that was
\* parsed and forwarded
C10_Witness ==
    \E i \in 1..Len(hist) :
        /\ Len(hist[i]) = 2
        /\ hist[i][1].err
        /\ hist[i][2].res = <<"ok">>
        /\ Len(acc) = 1

\* C11: the AddFields calls made for one session are in the order in which its
\* receiver took the line events from the session's Lines channel, however the
\* receivers of other sessions interleave.
C11_PerSessionOrder ==
    \A a \in 1..Len(acc) : \A b \in 1..Len(acc) :
        (a < b /\ acc[a].sid = acc[b].sid) => acc[a].n < acc[b].n

\* C11 witness: two lines of one session have been forwarded while a second
\* session has a receiver running
C11_Witness ==
    /\ Len(acc) = 2
    /\ acc[1].sid = acc[2].sid
    /\ acc[1].n = 1 /\ acc[2].n = 2
    /\ \E j \in 1..Len(disp) : j # acc[1].sid /\ disp[j].pc = "recv"

----------------------------------------------------------------------------
(* SpecCompile: Parser.Compile with inline custom patterns *)

\* the characters of a custom-pattern line: a space, the comment mark, and a
\* character of a name or of a regex fragment
Chars == {" ", "#", "N"}

\* strings are sequences of characters
StringsUpTo(n) == UNION {[1..k -> Chars] : k \in 0..n}

\* Parser.CustomPatterns as the lines bufio.Scanner gives: no line, one or two
CustomTexts ==
    {<<>>} \cup {<<a>> : a \in StringsUpTo(MaxLineLen)}
           \cup {<<a, b>> : a \in StringsUpTo(MaxLineLen), b \in StringsUpTo(MaxLineLen)}

\* p.CustomPatterns == ""
IsEmptyText(text) == text = <<>> \/ text = << <<>> >>

\* strings.TrimSpace
RECURSIVE TrimSpace(_)
TrimSpace(str) ==
    IF str = <<>> THEN str
    ELSE IF Head(str) = " " THEN TrimSpace(Tail(str))
    ELSE IF str[Len(str)] = " " THEN TrimSpace(SubSeq(str, 1, Len(str) - 1))
    ELSE str

\* the position of the first c in str, or 0
IndexOf(str, c) ==
    IF \E i \in 1..Len(str) : str[i] = c
    THEN CHOOSE i \in 1..Len(str) : str[i] = c /\ \A j \in 1..(i - 1) : str[j] # c
    ELSE 0

\* strings.SplitN(l, " ", 2)
SplitN2(l) ==
    LET i == IndexOf(l, " ")
    IN IF i = 0 THEN <<l>>
       ELSE <<SubSeq(l, 1, i - 1), SubSeq(l, i + 1, Len(l))>>

InitCompile ==
    /\ parser = NewParser(TRUE, {}, {}, {"response"}, {"bytes"})
    /\ \E text \in CustomTexts :
          call = [pc |-> "start", text |-> text, rest |-> text,
                  filePatterns |-> EmptyMap, out |-> "none"]
    /\ seen = {}
    /\ firsts = {}
    /\ grokNil = FALSE
    /\ globs = <<>>
    /\ PluginCreated

\* Compile up to the custom patterns: the new Grok, no pattern file, and the
\* test p.CustomPatterns != ""
CStart ==
    /\ call.pc = "start"
    /\ parser' = [parser EXCEPT !.g = TRUE]
    /\ call' = [call EXCEPT !.pc = IF IsEmptyText(call.text) THEN "filters" ELSE "scan"]
    /\ UNCHANGED <<seen, firsts, pluginVars>>

\* one iteration of addCustomPatterns' scanner loop; names[1] of a one-element
\* slice is an index out of range, a run-time panic
CScan ==
    /\ call.pc = "scan"
    /\ call.rest # <<>>
    /\ LET l == TrimSpace(Head(call.rest))
       IN IF Len(l) > 0 /\ l[1] # "#"
          THEN LET names == SplitN2(l)
               IN IF Len(names) < 2
                  THEN call' = [call EXCEPT !.pc = "done", !.out = "panic"]
                  ELSE call' = [call EXCEPT
                                  !.rest = Tail(@),
                                  !.filePatterns = Put(@, names[1], names[2])]
          ELSE call' = [call EXCEPT !.rest = Tail(@)]
    /\ UNCHANGED <<parser, seen, firsts, pluginVars>>

\* return p.g.AddPatternsFromMap(filePatterns), and Compile's test of the error
CAddMap ==
    /\ call.pc = "scan"
    /\ call.rest = <<>>
    /\ \E fails \in BOOLEAN :
          call' = IF fails THEN [call EXCEPT !.pc = "done", !.out = "err"]
                  ELSE [call EXCEPT !.pc = "filters"]
    /\ UNCHANGED <<parser, seen, firsts, pluginVars>>

\* the four key filters, and return nil
CFilters ==
    /\ call.pc = "filters"
    /\ parser' = Compile(parser).p
    /\ call' = [call EXCEPT !.pc = "done", !.out = "ok"]
    /\ UNCHANGED <<seen, firsts, pluginVars>>

NextCompile == CStart \/ CScan \/ CAddMap \/ CFilters

SpecCompile == InitCompile /\ [][NextCompile]_vars

\* a line of the text that is neither blank nor a comment and has no space
\* after trimming: a name without a regex fragment
HasNameOnlyLine(text) ==
    \E i \in 1..Len(text) :
        LET l == TrimSpace(text[i])
        IN Len(l) > 0 /\ l[1] # "#" /\ IndexOf(l, " ") = 0

\* C12: when the inline custom-pattern text has a non-blank, non-comment line
\* with a name and no regex fragment, Compile ends by returning an error; it
\* neither succeeds nor crashes.
C12_NameOnlyLineIsCompileError ==
    (call.pc = "done" /\ HasNameOnlyLine(call.text)) => call.out = "err"

\* C13: a receiver is done only when its session's Lines channel is closed;
\* every line event it has finished with has one outcome per parser it ranged
\* over, also after a read-error event or a failed ParseLine; and a receiver
\* that is between events, or in its parser loop, can take its next step
\* whatever the other sessions' receivers have met.
C13_ExitOnlyOnClose ==
    \A i \in 1..Len(disp) :
        /\ disp[i].pc = "done" => sess[i].closed
        /\ \A n \in 1..Len(hist[i]) :
              (n < Len(hist[i]) \/ disp[i].pc \in {"recv", "done"})
                  => /\ Len(hist[i][n].res) = Len(hist[i][n].ps)
                     /\ hist[i][n].err => hist[i][n].ps = <<>>
        /\ (disp[i].pc = "recv" /\ ~sess[i].closed /\ ~crashed /\ Delivered < MaxEvents)
              => ENABLED RecvLine(i)
        /\ (disp[i].pc = "parse" /\ ~crashed) => ENABLED RecvParse(i)

\* C13 witness: a receiver took a read-error event and then a line whose
\* ParseLine failed, and is back waiting on its open channel, while another
\* session's receiver is waiting too.
C13_Witness ==
    \E i \in 1..Len(disp) : \E j \in 1..Len(disp) :
        /\ i # j
        /\ Len(hist[i]) = 2
        /\ hist[i][1].err
        /\ hist[i][2].res = <<"fail">>
        /\ disp[i].pc = "recv" /\ ~sess[i].closed
        /\ disp[j].pc = "recv" /\ ~sess[j].closed

\* C14: under fair scheduling, with every stopped session's Lines channel
\* closed and every AddFields call returning, a Stop that has been called
\* eventually returns.
C14_StopReturns == (stopper.pc # "idle") ~> (stopper.pc = "idle")

\* some receiver has been launched and has not left its loop
ReceiverRunning == \E i \in 1..Len(disp) : disp[i].pc \in {"recv", "parse"}

\* C15: while a receiver is running, no step assigns l.parsers, changes a
\* parser's compiled grammar or filters, or runs Compile on a parser.
C15_ParsersImmutableOnceStarted ==
    [][ReceiverRunning =>
          /\ l_parsers' = l_parsers
          /\ parser' = parser
          /\ ~(starter.pc = "compile" /\ starter'.ci = starter.ci + 1)]_vars

\* C16: when the first Start returns from the loop over l.Files, l.tailers has
\* one session per distinct file that was opened: no two recorded sessions
\* tail the same file.
C16_OneSessionPerFile ==
    (StartReturning /\ starter.n = 1) =>
        Len(tailers) = Cardinality({sess[tailers[t]].file : t \in 1..Len(tailers)})

\* Start, and Stop, is between its l.Lock() and its deferred l.Unlock()
StartBody == starter.pc \notin {"idle", "lock"}

StopBody == stopper.pc \in {"loop", "unlock"}

\* C17: the lock is held exactly while Start or Stop is in its body, so the
\* two bodies never overlap; a Start called while Stop holds the lock cannot
\* enter, nor a Stop while Start holds it; and a receiver's steps (ParseLine
\* and AddFields, leaving its loop) are enabled whoever holds the lock.
C17_LockOnlyStartStop ==
    /\ mu \in {"free", "Start", "Stop"}
    /\ (mu = "Start") <=> StartBody
    /\ (mu = "Stop") <=> StopBody
    /\ ~(StartBody /\ StopBody)
    /\ (StopBody /\ starter.pc = "lock") => ~ENABLED StartLock
    /\ (StartBody /\ stopper.pc = "lock") => ~ENABLED StopLock
    /\ \A i \in 1..Len(disp) :
          /\ (disp[i].pc = "parse" /\ ~crashed) => ENABLED RecvParse(i)
          /\ (disp[i].pc = "recv" /\ sess[i].closed /\ ~crashed) => ENABLED RecvExit(i)

\* C17 witness: Stop has stopped every session and waits in l.wg.Wait() with
\* the lock held, a Start call is blocked in l.Lock(), and a receiver is in
\* its parser loop.
C17_Witness ==
    /\ stopper.pc = "loop"
    /\ stopper.i > Len(stopper.ts)
    /\ wg > 0
    /\ starter.pc = "lock"
    /\ \E i \in 1..Len(disp) : disp[i].pc = "parse"

\* the receivers that have been launched and have not left their loop, the
\* receivers ever launched, and those counted by l.wg.Add(1) that have not
\* run their deferred l.wg.Done()
NumRunning == Cardinality({i \in 1..Len(disp) : disp[i].pc \in {"recv", "parse"}})

NumLaunched == Cardinality({i \in 1..Len(disp) : disp[i].pc # "new"})

NumAdded == Cardinality({i \in 1..Len(disp) : disp[i].pc # "done"})

\* C18, as stated: in every reachable state the counter equals the number of
\* launched receivers that have not exited and is not negative, and the number
\* of receivers ever launched equals the length of l.tailers.
C18_CounterEqualsRunningAlways ==
    /\ wg >= 0
    /\ wg = NumRunning
    /\ NumLaunched = Len(tailers)

\* C18, amended: the counter is never negative and equals the number of
\* receivers added and not yet exited; outside the three statements
\* l.wg.Add(1), go l.receiver(tailer), append of one Start iteration it equals
\* the number of running receivers and the receivers ever launched are as many
\* as l.tailers; between Add and go the counter is one ahead of the running
\* receivers, between go and append l.tailers is one behind the launched;
\* that window lies inside Start's locked body, and Stop is past l.wg.Wait()
\* only with no receiver running.
C18_CounterTracksReceivers ==
    /\ wg >= 0
    /\ wg = NumAdded
    /\ starter.pc \notin {"go", "append"} =>
          (wg = NumRunning /\ NumLaunched = Len(tailers))
    /\ starter.pc = "go" =>
          (wg = NumRunning + 1 /\ NumLaunched = Len(tailers) /\ mu = "Start")
    /\ starter.pc = "append" =>
          (wg = NumRunning /\ NumLaunched = Len(tailers) + 1 /\ mu = "Start")
    /\ stopper.pc = "unlock" => NumRunning = 0

\* C18 witness: Stop, holding the lock, waits in l.wg.Wait() after one of two
\* receivers has exited: the counter is 1 and one receiver is still running.
C18_Witness ==
    /\ stopper.pc = "loop"
    /\ stopper.i > Len(stopper.ts)
    /\ wg = 1
    /\ NumRunning = 1
    /\ \E i \in 1..Len(disp) : disp[i].pc = "done"

\* the Stop calls that have issued t.Stop() and t.Cleanup() to position t of
\* l.tailers: those whose slice reached position t, the call now in its loop
\* counting once it is past t
StopsIssued(t) ==
    Cardinality({c \in 1..Len(stopper.lens) :
                    /\ stopper.lens[c] >= t
                    /\ (c < Len(stopper.lens) \/ stopper.pc # "loop" \/ t < stopper.i)})

\* C19: l.tailers only ever changes by Start appending one newly opened session
\* at its end, so the sessions stay recorded in the order they were opened and
\* no step of Stop changes the list; and every Stop call issues Stop and
\* Cleanup to every session recorded when it runs, the ones stopped by earlier
\* calls included.
C19_TailersAppendOnly ==
    /\ [](\A t \in 1..Len(tailers) :
             /\ tailers[t] = t
             /\ sess[t].stops = StopsIssued(t)
             /\ sess[t].cleanups = StopsIssued(t))
    /\ [][\/ tailers' = tailers
          \/ /\ starter.pc = "append"
             /\ tailers' = Append(tailers, starter.sid)
             /\ stopper' = stopper]_vars

\* C19 witness: Start, Stop, Start, Stop, each Start opening one session: the
\* list holds both sessions, the older first, stopped twice and once.
C19_Witness ==
    /\ starter.n = 2 /\ stopper.n = 2
    /\ stopper.pc = "idle"
    /\ Len(tailers) = 2
    /\ sess[tailers[1]].stops = 2 /\ sess[tailers[1]].cleanups = 2
    /\ sess[tailers[2]].stops = 1 /\ sess[tailers[2]].cleanups = 1

\* C20: a pattern of l.Files that does not compile as a glob is skipped: Start
\* does not end in a panic, and when it returns from the loop over l.Files
\* every file of every pattern that did compile has been attempted.
C20_BadGlobSkipped ==
    /\ starter.pc # "panic"
    /\ ~crashed
    /\ StartReturning =>
          \A pi \in 1..Len(globs) :
              globs[pi].ok =>
                  \A f \in globs[pi].files :
                      \E a \in starter.attempts : a.pi = pi /\ a.file = f

====
